---------------------------- MODULE Spec2Model ----------------------------
(***************************************************************************)
(* ScanIt: the record list view (BlockchainExplorer) and the report detail *)
(* view (ReportDetails), each modelled as a state machine over its React   *)
(* state, the identity supplied by useAuth, the requests it has in flight  *)
(* against the 'verifications' table and the side effects it issues        *)
(* (console, toast, navigation, clipboard, download).                      *)
(***************************************************************************)
EXTENDS Naturals, Sequences, FiniteSets, TLC

(***************************************************************************)
(* Bounds of the model.                                                    *)
(***************************************************************************)
\* fetches one view may issue in a behaviour
MaxFetches == 3
\* calls of copyHash, and of downloadReport, in a behaviour
MaxClicks == 1

(***************************************************************************)
(* The data store: the rows of table 'verifications' (VerificationData).   *)
(* created_at is a timestamp with a sub-second part; blockchain_hash may   *)
(* be absent.                                                              *)
(***************************************************************************)
\* an absent string (identity, route parameter, hash, clipboard text)
NULL == "NULL"

\* an absent object (report, selectedBlock, the data of a failed query)
NullObject == [null |-> TRUE]

Users == {"u1", "u2"}

Ts(s, f) == [sec |-> s, frac |-> f]

Row(i, c, ai, conf, h, t, u) ==
    [id |-> i, content |-> c, is_ai_generated |-> ai, confidence |-> conf,
     blockchain_hash |-> h, created_at |-> t, user_id |-> u]

Store ==
    { Row("a1", "alpha beta", TRUE,  93, "0xa1", Ts(5, 0), "u1"),
      Row("a2", "gamma",      FALSE, 71, "0xa2", Ts(4, 7), "u1"),
      Row("a3", "",           TRUE,  50, "0xa3", Ts(4, 2), "u1"),
      Row("a4", "delta eps",  FALSE, 8,  NULL,   Ts(4, 2), "u1"),
      Row("b1", "zeta",       TRUE,  100, "0xb1", Ts(9, 1), "u2") }

\* the draws Math.random().toString(16).substring(2, 42) can produce
RandomHex == {"r1", "r2"}

\* what the user can type into the search box
SearchInputs == {"", "0xa"}

VARIABLES
    user,           \* useAuth().user: the identity, or NULL
    console,        \* the messages given to console.error, in order
    \* ---- BlockchainExplorer
    mounted,        \* the effect of the first render has run
    searchTerm,
    selectedBlock,
    userBlocks,
    loading,
    pending,        \* pending[u]: requests for owner u in flight
    fetches,        \* requests issued so far
    \* ---- ReportDetails
    id,             \* useParams().id: the record identity of the route, or NULL
    reportMounted,  \* the effect of the first render has run
    report,
    reportLoading,
    reportPending,  \* reportPending[q]: requests q = <<id, user id>> in flight
    reportFetches,  \* requests issued so far
    toasts,         \* the toasts fired, in order
    navigations,    \* the paths given to navigate, in order
    clipboard,      \* the text last written to the clipboard, or NULL
    downloads,      \* the files handed to the browser, in order
    copyClicks,     \* calls of copyHash so far
    downloadClicks  \* calls of downloadReport so far

listVars == <<mounted, searchTerm, selectedBlock, userBlocks, loading, pending, fetches>>

reportVars == <<id, reportMounted, report, reportLoading, reportPending, reportFetches,
                toasts, navigations, clipboard, downloads, copyClicks, downloadClicks>>

vars == <<user, console, listVars, reportVars>>

(***************************************************************************)
(* The list query and the mapping of rows to blocks.                       *)
(***************************************************************************)
TsLess(a, b) == a.sec < b.sec \/ (a.sec = b.sec /\ a.frac < b.frac)

OwnedBy(u) == {r \in Store : r.user_id = u}

IsDescending(s) ==
    \A i \in 1..(Len(s) - 1) : ~TsLess(s[i].created_at, s[i + 1].created_at)

\* .from('verifications').select('*').eq('user_id', u).order('created_at',
\* {ascending: false}): every row of the owner once, newest first; rows with
\* equal created_at come in either order.
ListQuery(u) ==
    LET rows == OwnedBy(u)
        n == Cardinality(rows)
    IN  {s \in [1..n -> rows] :
            /\ \A i, j \in 1..n : i # j => s[i] # s[j]
            /\ IsDescending(s)}

\* JavaScript truthiness of an optional string
Falsy(h) == h = NULL \/ h = ""

FromCharCode(c) ==
    CASE c = 65 -> "A" [] c = 66 -> "B" [] c = 67 -> "C" [] c = 68 -> "D"
      [] OTHER -> "?"

\* the label with a rotation of four names
VerifierLabelFour(index) == "ScanIt Node " \o FromCharCode(65 + (index % 4))

\* index is the 0-based position of the row in the fetched list
VerifierLabel(index) == "ScanIt Node " \o FromCharCode(65 + (index % 3))

ToBlock(verification, index, rnd) ==
    [id |-> verification.id,
     hash |-> IF Falsy(verification.blockchain_hash)
                THEN "0x" \o rnd
                ELSE verification.blockchain_hash,
     timestamp |-> verification.created_at,
     verifier |-> VerifierLabel(index),
     transactions |-> 1,
     status |-> "confirmed"]

\* (data || []).map((verification, index) => ...); draws[i] is the random
\* draw made for position i
ToBlocks(data, draws) ==
    [i \in 1..Len(data) |-> ToBlock(data[i], i - 1, draws[i])]

(***************************************************************************)
(* What BlockchainExplorer renders.                                        *)
(***************************************************************************)
ListColumn ==
    IF loading THEN "loading"
    ELSE IF user = NULL THEN "login"
    ELSE IF Len(userBlocks) = 0 THEN "empty"
    ELSE "blocks"

RenderedBlocks == IF ListColumn = "blocks" THEN userBlocks ELSE <<>>

\* the cards carrying the selected style
MarkedSelected ==
    {i \in 1..Len(RenderedBlocks) :
        selectedBlock # NullObject /\ selectedBlock.id = RenderedBlocks[i].id}

\* the Block Details pane
DetailPane ==
    IF selectedBlock # NullObject THEN selectedBlock
    ELSE IF loading THEN "Loading verification details..."
    ELSE IF user = NULL THEN "Login to view your verification blocks"
    ELSE IF Len(userBlocks) = 0 THEN "Start scanning content to see your verification blocks here"
    ELSE "Select a block to view detailed information"

(***************************************************************************)
(* BlockchainExplorer                                                      *)
(***************************************************************************)
InitList ==
    /\ mounted = FALSE
    /\ searchTerm = ""
    /\ selectedBlock = NullObject
    /\ userBlocks = <<>>
    /\ loading = TRUE
    /\ pending = [u \in Users |-> 0]
    /\ fetches = 0

CanFetch(u) == u = NULL \/ fetches < MaxFetches

\* useEffect(() => { if (user) loadUserVerifications(); else setLoading(false) },
\* [user]), run for identity u; loadUserVerifications sends the query for u.id
UserEffect(u) ==
    IF u # NULL
      THEN /\ pending' = [pending EXCEPT ![u] = @ + 1]
           /\ fetches' = fetches + 1
           /\ UNCHANGED loading
      ELSE /\ loading' = FALSE
           /\ UNCHANGED <<pending, fetches>>

Mount ==
    /\ ~mounted
    /\ CanFetch(user)
    /\ mounted' = TRUE
    /\ UserEffect(user)
    /\ UNCHANGED <<user, console, searchTerm, selectedBlock, userBlocks, reportVars>>

\* the auth provider publishes another identity; the view renders again and
\* the effect runs
AuthChange(u) ==
    /\ mounted
    /\ u # user
    /\ CanFetch(u)
    /\ user' = u
    /\ UserEffect(u)
    /\ UNCHANGED <<console, mounted, searchTerm, selectedBlock, userBlocks, reportVars>>

Answered(u) == pending' = [pending EXCEPT ![u] = @ - 1]

\* a success handler that drops the answer when u is no longer the identity
FetchOkIgnoresStale(u) ==
    /\ pending[u] > 0
    /\ IF u = user
         THEN \E data \in ListQuery(u) :
                \E draws \in [1..Len(data) -> RandomHex] :
                   userBlocks' = ToBlocks(data, draws)
         ELSE UNCHANGED userBlocks
    /\ loading' = FALSE
    /\ Answered(u)
    /\ UNCHANGED <<user, console, mounted, searchTerm, selectedBlock, fetches, reportVars>>

\* the query answers {data, error: null}
FetchOk(u) ==
    /\ pending[u] > 0
    /\ \E data \in ListQuery(u) :
         \E draws \in [1..Len(data) -> RandomHex] :
            userBlocks' = ToBlocks(data, draws)
    /\ loading' = FALSE
    /\ Answered(u)
    /\ UNCHANGED <<user, console, mounted, searchTerm, selectedBlock, fetches, reportVars>>

\* an error handler that sends the query again
FetchErrorRetries(u) ==
    /\ pending[u] > 0
    /\ fetches < MaxFetches
    /\ console' = Append(console, "Error loading verifications:")
    /\ loading' = FALSE
    /\ fetches' = fetches + 1
    /\ UNCHANGED <<user, mounted, searchTerm, selectedBlock, userBlocks, pending, reportVars>>

\* the query answers {data: null, error}
FetchError(u) ==
    /\ pending[u] > 0
    /\ console' = Append(console, "Error loading verifications:")
    /\ loading' = FALSE
    /\ Answered(u)
    /\ UNCHANGED <<user, mounted, searchTerm, selectedBlock, userBlocks, fetches, reportVars>>

\* the awaited query rejects
FetchThrows(u) ==
    /\ pending[u] > 0
    /\ console' = Append(console, "Error loading user verifications:")
    /\ loading' = FALSE
    /\ Answered(u)
    /\ UNCHANGED <<user, mounted, searchTerm, selectedBlock, userBlocks, fetches, reportVars>>

\* a click that deselects the block already selected
SelectBlockToggle(i) ==
    /\ i \in 1..Len(RenderedBlocks)
    /\ selectedBlock' = IF selectedBlock = RenderedBlocks[i]
                          THEN NullObject ELSE RenderedBlocks[i]
    /\ UNCHANGED <<user, console, mounted, searchTerm, userBlocks, loading, pending, fetches,
                   reportVars>>

\* onClick of the i-th rendered card
SelectBlock(i) ==
    /\ i \in 1..Len(RenderedBlocks)
    /\ selectedBlock' = RenderedBlocks[i]
    /\ UNCHANGED <<user, console, mounted, searchTerm, userBlocks, loading, pending, fetches,
                   reportVars>>

\* onChange of the search input
SetSearchTerm(v) ==
    /\ searchTerm' = v
    /\ UNCHANGED <<user, console, mounted, selectedBlock, userBlocks, loading, pending, fetches,
                   reportVars>>

(***************************************************************************)
(* The single-record query and the text of the downloaded report.          *)
(***************************************************************************)
\* the record identities a route can carry: two records of u1 (one of them
\* without a hash) and one that is stored nowhere
RouteIds == {"a1", "a4", "zz"}

Requests == RouteIds \X Users

\* .from('verifications').select('*').eq('id', rid).eq('user_id', uid).single():
\* the one matching row, or an error when the rows matching are not exactly one
SingleQuery(rid, uid) ==
    LET rows == {r \in Store : r.id = rid /\ r.user_id = uid}
    IN  IF Cardinality(rows) = 1
          THEN [data |-> CHOOSE r \in rows : TRUE, error |-> NULL]
          ELSE [data |-> NullObject, error |-> "PGRST116"]

\* what the awaited query resolves to: an error of the data store or the
\* transport when the request fails on the way, else the query's answer
Answer(rid, uid, fails) ==
    IF fails THEN [data |-> NullObject, error |-> "FetchError"]
    ELSE SingleQuery(rid, uid)

\* new Date(t).toLocaleString(): date and time to the second
ToLocaleString(t) == ToString(t.sec) \o "s"

\* ${v} in a template literal
Interpolate(v) == IF v = NULL THEN "null" ELSE v

\* the two labels exchanged
ClassificationLabelSwapped(r) ==
    IF r.is_ai_generated THEN "Human-Written" ELSE "AI-Generated"

ClassificationLabel(r) == IF r.is_ai_generated THEN "AI-Generated" ELSE "Human-Written"

\* the template literal of downloadReport, line by line; r.content is
\* inserted as it is
ReportContent(r) ==
    << "",
       "ScanIt Detailed Verification Report",
       "==================================",
       "",
       "Content Analysis:",
       "- Content ID: " \o r.id,
       "- Analysis Date: " \o ToLocaleString(r.created_at),
       "- Blockchain Hash: " \o Interpolate(r.blockchain_hash),
       "",
       "Results:",
       "- Classification: " \o ClassificationLabel(r),
       "- Confidence: " \o ToString(r.confidence) \o "%",
       "- Content Length: " \o ToString(Len(r.content)) \o " characters",
       "",
       "Content:",
       r.content,
       "",
       "" >>

DownloadName(r) == "scanit-report-" \o r.id \o ".txt"

LoadFailedToast ==
    [title |-> "Error", description |-> "Failed to load report details",
     variant |-> "destructive"]

CopiedToast ==
    [title |-> "Copied to clipboard",
     description |-> "Blockchain hash copied successfully", variant |-> "default"]

DownloadedToast ==
    [title |-> "Report Downloaded",
     description |-> "Detailed report has been downloaded successfully",
     variant |-> "default"]

(***************************************************************************)
(* What ReportDetails renders.                                             *)
(***************************************************************************)
\* navigate('/reports') takes the router to the list page
Left == Len(navigations) > 0

ReportView ==
    IF Left THEN "unmounted"
    ELSE IF reportLoading THEN "loading"
    ELSE IF report = NullObject THEN "notfound"
    ELSE "report"

\* the record whose fields are on the page
DisplayedReport == IF ReportView = "report" THEN report ELSE NullObject

(***************************************************************************)
(* ReportDetails                                                           *)
(***************************************************************************)
InitReport ==
    /\ reportMounted = FALSE
    /\ report = NullObject
    /\ reportLoading = TRUE
    /\ reportPending = [q \in Requests |-> 0]
    /\ reportFetches = 0
    /\ toasts = <<>>
    /\ navigations = <<>>
    /\ clipboard = NULL
    /\ downloads = <<>>
    /\ copyClicks = 0
    /\ downloadClicks = 0

CanLoad(rid, u) == rid = NULL \/ u = NULL \/ reportFetches < MaxFetches

\* useEffect(() => { if (id && user) loadReportDetails() }, [id, user]), run
\* for route identity rid and identity u
ReportEffect(rid, u) ==
    IF rid # NULL /\ u # NULL
      THEN /\ reportPending' = [reportPending EXCEPT ![<<rid, u>>] = @ + 1]
           /\ reportFetches' = reportFetches + 1
      ELSE UNCHANGED <<reportPending, reportFetches>>

ReportMount ==
    /\ ~reportMounted
    /\ CanLoad(id, user)
    /\ reportMounted' = TRUE
    /\ ReportEffect(id, user)
    /\ UNCHANGED <<user, console, listVars, id, report, reportLoading, toasts,
                   navigations, clipboard, downloads, copyClicks, downloadClicks>>

\* the router hands the mounted view another record identity
RouteChange(rid) ==
    /\ reportMounted /\ ~Left
    /\ rid # id
    /\ CanLoad(rid, user)
    /\ id' = rid
    /\ ReportEffect(rid, user)
    /\ UNCHANGED <<user, console, listVars, reportMounted, report, reportLoading,
                   toasts, navigations, clipboard, downloads, copyClicks, downloadClicks>>

\* the auth provider publishes another identity to the mounted view
ReportAuthChange(u) ==
    /\ reportMounted /\ ~Left
    /\ u # user
    /\ CanLoad(id, u)
    /\ user' = u
    /\ ReportEffect(id, u)
    /\ UNCHANGED <<console, listVars, id, reportMounted, report, reportLoading,
                   toasts, navigations, clipboard, downloads, copyClicks, downloadClicks>>

ReportAnswered(q) == reportPending' = [reportPending EXCEPT ![q] = @ - 1]

\* the awaited query of request q resolves to res = {data, error}
ReportAnswer(q, res) ==
    /\ reportPending[q] > 0
    /\ IF res.error # NULL
         THEN /\ console' = Append(console, "Error loading report:")
              /\ toasts' = Append(toasts, LoadFailedToast)
              /\ navigations' = Append(navigations, "/reports")
              /\ UNCHANGED report
         ELSE /\ report' = res.data
              /\ UNCHANGED <<console, toasts, navigations>>
    /\ reportLoading' = FALSE
    /\ ReportAnswered(q)
    /\ UNCHANGED <<user, listVars, id, reportMounted, reportFetches, clipboard,
                   downloads, copyClicks, downloadClicks>>

\* a catch path with no finally block behind it
ReportThrowsKeepsLoading(q) ==
    /\ reportPending[q] > 0
    /\ console' = Append(console, "Error loading report details:")
    /\ ReportAnswered(q)
    /\ UNCHANGED <<user, listVars, id, reportMounted, report, reportLoading, reportFetches,
                   toasts, navigations, clipboard, downloads, copyClicks, downloadClicks>>

\* the awaited query of request q rejects
ReportThrows(q) ==
    /\ reportPending[q] > 0
    /\ console' = Append(console, "Error loading report details:")
    /\ reportLoading' = FALSE
    /\ ReportAnswered(q)
    /\ UNCHANGED <<user, listVars, id, reportMounted, report, reportFetches, toasts,
                   navigations, clipboard, downloads, copyClicks, downloadClicks>>

\* copyHash() writing the record's id instead of its hash
CopyHashWritesId ==
    /\ reportMounted /\ ~Left
    /\ copyClicks < MaxClicks
    /\ copyClicks' = copyClicks + 1
    /\ IF report # NullObject /\ ~Falsy(report.blockchain_hash)
         THEN /\ clipboard' = report.id
              /\ toasts' = Append(toasts, CopiedToast)
         ELSE UNCHANGED <<clipboard, toasts>>
    /\ UNCHANGED <<user, console, listVars, id, reportMounted, report, reportLoading,
                   reportPending, reportFetches, navigations, downloads, downloadClicks>>

\* copyHash()
CopyHash ==
    /\ reportMounted /\ ~Left
    /\ copyClicks < MaxClicks
    /\ copyClicks' = copyClicks + 1
    /\ IF report # NullObject /\ ~Falsy(report.blockchain_hash)
         THEN /\ clipboard' = report.blockchain_hash
              /\ toasts' = Append(toasts, CopiedToast)
         ELSE UNCHANGED <<clipboard, toasts>>
    /\ UNCHANGED <<user, console, listVars, id, reportMounted, report, reportLoading,
                   reportPending, reportFetches, navigations, downloads, downloadClicks>>

\* downloadReport()
DownloadReport ==
    /\ reportMounted /\ ~Left
    /\ downloadClicks < MaxClicks
    /\ downloadClicks' = downloadClicks + 1
    /\ IF report = NullObject
         THEN UNCHANGED <<downloads, toasts>>
         ELSE /\ downloads' = Append(downloads,
                    [download |-> DownloadName(report), type |-> "text/plain",
                     text |-> ReportContent(report)])
              /\ toasts' = Append(toasts, DownloadedToast)
    /\ UNCHANGED <<user, console, listVars, id, reportMounted, report, reportLoading,
                   reportPending, reportFetches, navigations, clipboard, copyClicks>>

\* onClick of the "Back to Reports" button, which the not-found view and the
\* report view render: navigate('/reports')
BackToReports ==
    /\ ReportView \in {"notfound", "report"}
    /\ navigations' = Append(navigations, "/reports")
    /\ UNCHANGED <<user, console, listVars, id, reportMounted, report, reportLoading,
                   reportPending, reportFetches, toasts, clipboard, downloads,
                   copyClicks, downloadClicks>>

(***************************************************************************)
(* The two views as specifications: each page is mounted on its own.       *)
(***************************************************************************)
InitListView ==
    /\ user \in Users \cup {NULL}
    /\ console = <<>>
    /\ InitList
    /\ InitReport
    /\ id = NULL

NextList ==
    \/ Mount
    \/ \E u \in Users \cup {NULL} : AuthChange(u)
    \/ \E u \in Users : FetchOk(u)
    \/ \E u \in Users : FetchError(u)
    \/ \E u \in Users : FetchThrows(u)
    \/ \E i \in 1..Cardinality(Store) : SelectBlock(i)
    \/ \E v \in SearchInputs : SetSearchTerm(v)

ListSpec == InitListView /\ [][NextList]_vars

InitReportView ==
    /\ user \in Users \cup {NULL}
    /\ console = <<>>
    /\ InitList
    /\ InitReport
    /\ id \in RouteIds

NextReport ==
    \/ ReportMount
    \/ \E rid \in RouteIds : RouteChange(rid)
    \/ \E u \in Users \cup {NULL} : ReportAuthChange(u)
    \/ \E q \in Requests : \E fails \in BOOLEAN :
          ReportAnswer(q, Answer(q[1], q[2], fails))
    \/ \E q \in Requests : ReportThrows(q)
    \/ CopyHash
    \/ DownloadReport
    \/ BackToReports

ReportSpec == InitReportView /\ [][NextReport]_vars

\* the router mounts one page at a time: the list page on the route without
\* a record identity, the detail page on a route with one
InitApp == InitListView \/ InitReportView

NextApp ==
    \/ id = NULL /\ NextList
    \/ id # NULL /\ NextReport

AppSpec == InitApp /\ [][NextApp]_vars

\* a fetch of the list view completes
ListCompletes ==
    /\ id = NULL
    /\ \E u \in Users : FetchOk(u) \/ FetchError(u) \/ FetchThrows(u)

\* a fetch of the detail view completes
ReportCompletes ==
    /\ id # NULL
    /\ \/ \E q \in Requests : \E fails \in BOOLEAN :
             ReportAnswer(q, Answer(q[1], q[2], fails))
       \/ \E q \in Requests : ReportThrows(q)

\* the data store settles every request: a fetch in flight is not left
\* unanswered for ever
FairAppSpec == AppSpec /\ WF_vars(ListCompletes) /\ WF_vars(ReportCompletes)

(***************************************************************************)
(* Properties of the list view.                                            *)
(***************************************************************************)
NoFetchOutstanding == \A u \in Users : pending[u] = 0

\* blocks is the one-to-one, order-preserving projection of the rows data
ProjectionOf(blocks, data) ==
    /\ Len(blocks) = Len(data)
    /\ \A i \in 1..Len(data) :
          /\ blocks[i].id = data[i].id
          /\ blocks[i].timestamp = data[i].created_at
          /\ ~Falsy(data[i].blockchain_hash) => blocks[i].hash = data[i].blockchain_hash

\* C1: whenever an identity U is current and no fetch is outstanding, the
\* stored and the rendered blocks are exactly the stored records of U, one
\* block per record, newest first.
C1_ListIsOwnersRecords ==
    (mounted /\ user # NULL /\ NoFetchOutstanding) =>
        \E data \in ListQuery(user) :
            /\ ProjectionOf(userBlocks, data)
            /\ ProjectionOf(RenderedBlocks, data)

\* C3: whenever no identity is present the list view shows the login prompt
\* and no field of any record, neither in the list column nor in the detail
\* pane.
C3_NoIdentityNoData ==
    (mounted /\ user = NULL) =>
        /\ ListColumn = "login"
        /\ RenderedBlocks = <<>>
        /\ selectedBlock = NullObject

\* C6: every failed fetch of the list view (error result or exception) logs
\* the error and leaves the stored block list empty.
C6_FailedFetchLeavesListEmpty ==
    [][(\E u \in Users : FetchError(u) \/ FetchThrows(u)) =>
          /\ Len(console') = Len(console) + 1
          /\ userBlocks' = <<>>]_vars

\* C7: in every state in which a fetch of the list view is outstanding the
\* loading flag is true and the loading placeholder is rendered.
C7_OutstandingFetchShowsLoading ==
    ~NoFetchOutstanding => (loading /\ ListColumn = "loading")

Rotation == <<"ScanIt Node A", "ScanIt Node B", "ScanIt Node C">>

\* C8: the block at 0-indexed position i of a fetched list carries the
\* verifier label rotation[i mod 3]; the label is a function of the position
\* alone.
C8_VerifierRotation ==
    \A k \in 1..Len(userBlocks) :
        userBlocks[k].verifier = Rotation[((k - 1) % 3) + 1]

\* a fetched list long enough for the rotation to wrap around
C8_Witness ==
    /\ Len(userBlocks) = 4
    /\ userBlocks[4].verifier = "ScanIt Node A"
    /\ userBlocks[4].id # userBlocks[1].id

\* C9: at most one rendered block is marked selected; a click on block b
\* puts exactly b into the selected slot, replacing what was there, and a
\* click on the block already selected changes nothing.
C9_SelectionExclusive ==
    [][/\ Cardinality(MarkedSelected)' <= 1
       /\ \A i \in 1..Len(RenderedBlocks) :
            SelectBlock(i) =>
               /\ selectedBlock' = RenderedBlocks[i]
               /\ selectedBlock = RenderedBlocks[i] => UNCHANGED vars]_vars

\* one block of a list of several is selected, and it is not the first
C9_Witness ==
    /\ Len(RenderedBlocks) > 1
    /\ MarkedSelected = {2}
    /\ selectedBlock = RenderedBlocks[2]

(***************************************************************************)
(* Properties of the report detail view.                                   *)
(***************************************************************************)
RecordsOf(rid, uid) == {r \in Store : r.id = rid /\ r.user_id = uid}

\* every fetch issued for the current route identity and identity has
\* completed (one is issued each time the pair becomes current)
CurrentFetchDone ==
    /\ reportMounted
    /\ id # NULL /\ user # NULL
    /\ reportPending[<<id, user>>] = 0

\* C2: once the fetch for (R, U) has completed: if a record R of owner U
\* exists it is the one displayed; otherwise the view has navigated to
\* '/reports', renders no record fields and stores no record of another
\* identity.
C2_DetailShowsRequestedRecord ==
    CurrentFetchDone =>
        IF RecordsOf(id, user) # {}
          THEN DisplayedReport \in RecordsOf(id, user)
          ELSE /\ \E n \in 1..Len(navigations) : navigations[n] = "/reports"
               /\ DisplayedReport = NullObject
               /\ report = NullObject

\* C4: with no identity present the detail view shows a login prompt: it is
\* not in the loading state and renders no record fields.
C4_DetailNoIdentityLoginPrompt ==
    (reportMounted /\ user = NULL) =>
        /\ ReportView # "loading"
        /\ DisplayedReport = NullObject

ReportFetchFails ==
    \/ \E q \in Requests : \E fails \in BOOLEAN :
          /\ Answer(q[1], q[2], fails).error # NULL
          /\ ReportAnswer(q, Answer(q[1], q[2], fails))
    \/ \E q \in Requests : ReportThrows(q)

\* C5: every failed fetch of the detail view (error result, record absent or
\* owned by another identity, exception) logs the error, fires exactly one
\* 'Failed to load report details' toast, navigates to '/reports' and does
\* not set the stored report.
C5_FailedLoadHandledAlike ==
    [][ReportFetchFails =>
          /\ Len(console') = Len(console) + 1
          /\ toasts' = Append(toasts, LoadFailedToast)
          /\ navigations' = Append(navigations, "/reports")
          /\ report' = report]_vars

HasLine(text, line) == \E n \in 1..Len(text) : text[n] = line

\* C10: downloadReport for the loaded record R hands over one text document
\* named 'scanit-report-{R.id}.txt' that holds R's id, creation time,
\* integrity tag, classification label, confidence, content length and the
\* content as it is; with no record loaded it hands over nothing and fires
\* no toast.
C10_DownloadHoldsRecord ==
    [][DownloadReport =>
          IF report = NullObject
            THEN downloads' = downloads /\ toasts' = toasts
            ELSE /\ Len(downloads') = Len(downloads) + 1
                 /\ SubSeq(downloads', 1, Len(downloads)) = downloads
                 /\ LET d == downloads'[Len(downloads')]
                    IN  /\ d.download = "scanit-report-" \o report.id \o ".txt"
                        /\ d.type = "text/plain"
                        /\ HasLine(d.text, "- Content ID: " \o report.id)
                        /\ HasLine(d.text, "- Analysis Date: "
                                             \o ToLocaleString(report.created_at))
                        /\ ~Falsy(report.blockchain_hash) =>
                              HasLine(d.text, "- Blockchain Hash: "
                                                \o report.blockchain_hash)
                        /\ HasLine(d.text, "- Classification: " \o
                              (IF report.is_ai_generated THEN "AI-Generated"
                                                         ELSE "Human-Written"))
                        /\ HasLine(d.text, "- Confidence: "
                                             \o ToString(report.confidence) \o "%")
                        /\ HasLine(d.text, "- Content Length: "
                                     \o ToString(Len(report.content)) \o " characters")
                        /\ HasLine(d.text, report.content)]_vars

\* downloadReport was called for the loaded human-written record a4
C10_Witness ==
    /\ downloadClicks = 1
    /\ report # NullObject /\ report.id = "a4"
    /\ Len(downloads) = 1
    /\ downloads[1].download = "scanit-report-a4.txt"
    /\ HasLine(downloads[1].text, "- Classification: Human-Written")

\* C11: copyHash for the loaded record writes exactly the record's
\* integrity tag to the clipboard and fires one confirmation toast; it
\* changes neither the loaded record nor the loading flag. (With no record
\* loaded, or a record without a tag, it writes and fires nothing.)
C11_CopyWritesTag ==
    [][CopyHash =>
          /\ report' = report
          /\ reportLoading' = reportLoading
          /\ IF report # NullObject /\ ~Falsy(report.blockchain_hash)
               THEN /\ clipboard' = report.blockchain_hash
                    /\ Len(toasts') = Len(toasts) + 1
                    /\ SubSeq(toasts', 1, Len(toasts)) = toasts
                    /\ toasts'[Len(toasts')].title = "Copied to clipboard"
               ELSE clipboard' = clipboard /\ toasts' = toasts]_vars

\* the tag of the loaded record a1 is on the clipboard and the toast was
\* fired once
C11_Witness ==
    /\ report # NullObject
    /\ report.id = "a1"
    /\ clipboard = "0xa1"
    /\ copyClicks = 1
    /\ toasts = <<CopiedToast>>

\* C12: a change of identity leaves the fetches in flight as they are, and
\* the answer to a fetch for U1 is applied when it arrives whatever the
\* current identity is: arriving while U2 is current, it leaves U1's records
\* stored and rendered.
C12_StaleAnswerApplied ==
    [][/\ \A u \in Users \cup {NULL} :
            AuthChange(u) => \A w \in Users : pending'[w] >= pending[w]
       /\ \A u \in Users :
            FetchOk(u) =>
               /\ \E data \in ListQuery(u) : ProjectionOf(userBlocks', data)
               /\ (user # NULL) => RenderedBlocks' = userBlocks']_vars

\* u2 is the identity, nothing is in flight, and the list stored and
\* rendered is the four records of u1
C12_Witness ==
    /\ user = "u2"
    /\ NoFetchOutstanding
    /\ fetches = 2
    /\ console = <<>>
    /\ Len(RenderedBlocks) = 4
    /\ \E data \in ListQuery("u1") : ProjectionOf(RenderedBlocks, data)

(***************************************************************************)
(* Properties of both views.                                               *)
(***************************************************************************)
\* the list view's effect runs in this step for a present identity
ListTrigger ==
    /\ mounted'
    /\ (~mounted \/ user' # user)
    /\ user' # NULL

\* the detail view's effect runs in this step with both keys present
ReportTrigger ==
    /\ reportMounted'
    /\ (~reportMounted \/ id' # id \/ user' # user)
    /\ id' # NULL /\ user' # NULL

\* C13: each view issues exactly one fetch per trigger (the list view per
\* first run or change of identity to a present identity, the detail view
\* per first run or change of (route identity, identity) with both present),
\* for the keys then current, and none in any other step: none while the
\* identity is absent, none after a failed fetch, none on select, search
\* input, copy or download.
C13_OneFetchPerTrigger ==
    [][/\ IF ListTrigger
            THEN /\ fetches' = fetches + 1
                 /\ pending' = [pending EXCEPT ![user'] = @ + 1]
            ELSE /\ fetches' = fetches
                 /\ \A u \in Users : pending'[u] <= pending[u]
       /\ IF ReportTrigger
            THEN /\ reportFetches' = reportFetches + 1
                 /\ reportPending' = [reportPending EXCEPT ![<<id', user'>>] = @ + 1]
            ELSE /\ reportFetches' = reportFetches
                 /\ \A q \in Requests : reportPending'[q] <= reportPending[q]]_vars

\* the detail view has issued two fetches, the first of which failed, and
\* copy and download were each called once
C13_Witness ==
    /\ reportFetches = 2
    /\ console = <<"Error loading report details:">>
    /\ \A q \in Requests : reportPending[q] = 0
    /\ report # NullObject
    /\ copyClicks = 1
    /\ downloadClicks = 1

\* C14: in both views every completing fetch (success, error result or
\* exception) leaves the loading flag false and no step sets the flag back
\* to true; hence, every issued fetch completing eventually, a view that has
\* issued a fetch eventually leaves the loading state and stays out of it.
C14_LoadingEnds ==
    /\ [][/\ ListCompletes => ~loading'
          /\ ReportCompletes => ~reportLoading'
          /\ ~loading => ~loading'
          /\ ~reportLoading => ~reportLoading']_vars
    /\ (fetches > 0) ~> [](~loading)
    /\ (reportFetches > 0) ~> [](~reportLoading)

\* the detail view's only fetch ended in an exception and the view is out
\* of the loading state
C14_Witness ==
    /\ reportFetches = 1
    /\ \A q \in Requests : reportPending[q] = 0
    /\ console = <<"Error loading report details:">>
    /\ ~reportLoading

=============================================================================
